---- MODULE Spec2Model ----
(***************************************************************************)
(* Model of the asynchronous level-of-detail render scheduler of libfive   *)
(* (class Frame, lib/src/gl/frame.cpp): Frame::render, Frame::startRender, *)
(* Frame::poll and the background worker started by std::async.            *)
(*                                                                         *)
(* The coordination thread runs render() and poll() to completion, one at  *)
(* a time; the only concurrent activity is the worker, which runs          *)
(* Heightmap::Render and Heightmap::Shade and then makes its future ready. *)
(*                                                                         *)
(* The interval operations _min and _max of lib/inc/ao/core/interval.hpp   *)
(* are modelled as operators and exercised by IntervalSpec.                *)
(***************************************************************************)
EXTENDS Integers, Sequences, FiniteSets

\* ------------------------------------------------------------------ bounds

\* Number of calls of Frame::render in one behaviour.
MaxRequests == 3

\* Number of calls of Frame::render in one behaviour of LiveSpec.
MaxLiveRequests == 3

\* The finite scalars of IntervalSpec are -MaxScalar .. MaxScalar.
MaxScalar == 1

\* ------------------------------------------------------ program constants

\* The level every user request starts at: Task(m, ni, nj, nk, 8).
StartLevel == 8

\* ------------------------------------------------------------------ inputs

\* The arguments <<m, ni, nj, nk>> render() is called with.  A transform m
\* is modelled by a translation along one axis, identified by its (integer)
\* offset: the product of two transforms is the sum of the offsets and
\* glm::inverse negates the offset.  ni, nj, nk are size_t, so never
\* negative; the last two requests have a zero resolution.
Requests == { <<1, 16, 32, 48>>, <<2, 8, 20, 16>>,
              <<1, 0, 16, 16>>, <<2, 16, 0, 0>> }

\* ------------------------------------------------------------------- state

VARIABLES
    current,      \* Frame::current : the task whose result is displayed
    pending,      \* Frame::pending : the task being computed
    next,         \* Frame::next    : the queued task
    future,       \* Frame::future  : 0 when !future.valid(), else the id of
                  \*                  the worker whose result it refers to
    threads,      \* the workers started by std::async whose result has not
                  \* been taken by future.get()
    treeMat,      \* the matrix installed in the tree by Tree::setMatrix
    tex,          \* the contents of the depth and norm textures
    \* history variables, written but never read by the operations
    op,           \* the operation that took the last step
    ret,          \* what the last poll() returned
    reqCount,     \* number of render() calls so far
    lastReq,      \* the arguments of the last render() call
    dispatchLog,  \* the tasks handed to std::async, in order
    promoteLog,   \* the tasks promoted to current, in order
    discarded,    \* requests overwritten in next before being started
    matWrites,    \* Tree::setMatrix calls made while a worker was in flight
    assertsHold,  \* no assert() of startRender has failed
    pollsSince,   \* polls that returned true since the last render() call
    \* the evaluation of _min and _max
    ia, ib, ic,   \* three intervals
    ires          \* the results of _min or _max on them

\* The variables of the interval evaluation.
intervalVars == << ia, ib, ic, ires >>

vars == << current, pending, next, future, threads, treeMat, tex,
           op, ret, reqCount, lastReq, dispatchLog, promoteLog, discarded,
           matWrites, assertsHold, pollsSince, intervalVars >>

\* -------------------------------------------------------------------- Task

\* Task(m, ni, nj, nk, level).  The field req is a history tag (the number
\* of the render() call the task descends from); no operation reads it.
Task(m, ni, nj, nk, level, req) ==
    [mat |-> m, ni |-> ni, nj |-> nj, nk |-> nk, level |-> level, req |-> req]

\* Task(): the default-constructed task, which is not valid.
NoTask == Task(0, 0, 0, 0, 0, 0)

\* Task::valid()
valid(t) == t.level > 0

\* Task::reset()
reset(t) == NoTask

\* glm::inverse on the modelled transforms
inverse(m) == 0 - m

\* The conversion of the double n / div to a voxel count of the Region.
toCount(n, div) == n \div div

\* A Region with the counts of the second and third axes exchanged.
Region_SwapsAxes(t) ==
    LET div == 2 * t.level
    IN  [x |-> <<-1, 1>>, y |-> <<-1, 1>>, z |-> <<-1, 1>>,
         ni |-> toCount(t.ni, div), nj |-> toCount(t.nk, div),
         nk |-> toCount(t.nj, div)]

\* A Region scaled by the level instead of twice the level.
Region_DivByLevel(t) ==
    LET div == t.level
    IN  [x |-> <<-1, 1>>, y |-> <<-1, 1>>, z |-> <<-1, 1>>,
         ni |-> toCount(t.ni, div), nj |-> toCount(t.nj, div),
         nk |-> toCount(t.nk, div)]

\* The Region built for a task: fixed extents and level-scaled voxel counts.
\* div is 2.0 * level and each count is ni / div converted to an integer.
Region(t) ==
    LET div == 2 * t.level
    IN  [x |-> <<-1, 1>>, y |-> <<-1, 1>>, z |-> <<-1, 1>>,
         ni |-> toCount(t.ni, div), nj |-> toCount(t.nj, div),
         nk |-> toCount(t.nk, div)]

NoRegion == [x |-> <<0, 0>>, y |-> <<0, 0>>, z |-> <<0, 0>>,
             ni |-> 0, nj |-> 0, nk |-> 0]

\* The product of two of the modelled transforms.
mul(m1, m2) == m1 + m2

\* ---------------------------------------------------------- the Frame state

\* The part of the state startRender works on.
Frame ==
    [current |-> current, pending |-> pending, next |-> next,
     future |-> future, threads |-> threads, treeMat |-> treeMat,
     dispatchLog |-> dispatchLog, matWrites |-> matWrites,
     assertsHold |-> assertsHold]

\* future.valid()
futureValid(f) == f.future # 0

\* The worker closure started by std::async: it captures the tree and the
\* region; mat is the tree's matrix when it starts.
Worker(id, r, m) == [id |-> id, region |-> r, mat |-> m, done |-> FALSE]

\* The dispatch branch with the worker started before the matrix is
\* installed: the worker starts on the matrix of the previous task.
dispatch_AsyncBeforeMatrix(a) ==
    LET r  == Region(a.next)
        m  == inverse(a.next.mat)
        id == Len(a.dispatchLog) + 1
    IN  [a EXCEPT
           !.treeMat     = m,
           !.matWrites   = a.matWrites + 1,
           !.pending     = a.next,
           !.next        = reset(a.next),
           !.future      = id,
           !.threads     = a.threads \cup {Worker(id, r, a.treeMat)},
           !.dispatchLog = Append(a.dispatchLog, a.next)]

\* Frame::startRender, the branch taken when next.valid(): build the Region,
\* install the inverse transform in the tree, move next to pending and start
\* the worker.  matWrites counts the setMatrix calls made while a worker
\* that reads the tree has not been consumed.
dispatch(a) ==
    LET r  == Region(a.next)
        m  == inverse(a.next.mat)
        id == Len(a.dispatchLog) + 1
    IN  [a EXCEPT
           !.treeMat     = m,
           !.matWrites   = IF a.threads # {} THEN a.matWrites + 1
                           ELSE a.matWrites,
           !.pending     = a.next,
           !.next        = reset(a.next),
           !.future      = id,
           !.threads     = a.threads \cup {Worker(id, r, m)},
           !.dispatchLog = Append(a.dispatchLog, a.next)]

\* The two assertions at the top of startRender.  A failed assert is
\* recorded and execution goes on as in a build with NDEBUG (a build without
\* it stops there, which adds no behaviour).
checkAsserts(f) ==
    [f EXCEPT !.assertsHold =
        f.assertsHold /\ ~futureValid(f) /\ ~valid(f.pending)]

\* A refinement that lowers the level by one.
refine_Decrements(a) == [a EXCEPT !.next = [a.current EXCEPT !.level = a.current.level - 1]]

\* The refinement of the current task: next = current; next.level /= 2.
refine(a) == [a EXCEPT !.next = [a.current EXCEPT !.level = a.current.level \div 2]]

RECURSIVE startRender(_)

\* startRender() that prefers refining the current task to starting the
\* queued request.
startRender_RefineFirst(f) ==
    LET a == checkAsserts(f)
    IN  IF a.current.level > 1
        THEN dispatch(checkAsserts(refine(a)))
        ELSE IF valid(a.next)
        THEN dispatch(a)
        ELSE a

\* startRender() whose refinement stops one level early.
startRender_StopsEarly(f) ==
    LET a == checkAsserts(f)
    IN  IF valid(a.next)
        THEN dispatch(a)
        ELSE IF a.current.level > 2
        THEN dispatch(checkAsserts(refine(a)))
        ELSE a

\* Frame::startRender
startRender(f) ==
    LET a == checkAsserts(f)
    IN  IF valid(a.next)
        THEN dispatch(a)
        ELSE IF a.current.level > 1
        THEN startRender(refine(a))
        ELSE a

\* Writes a Frame record back to the variables.
Store(f) ==
    /\ current' = f.current
    /\ pending' = f.pending
    /\ next' = f.next
    /\ future' = f.future
    /\ threads' = f.threads
    /\ treeMat' = f.treeMat
    /\ dispatchLog' = f.dispatchLog
    /\ matWrites' = f.matWrites
    /\ assertsHold' = f.assertsHold

\* ---------------------------------------------------------------- Interval

\* The doubles of the model: the finite scalars and, beyond them, the two
\* infinities, ordered as IEEE orders them.
Inf == MaxScalar + 1

Scalars == (0 - Inf) .. Inf

\* boost::numeric::interval<double>: lower() <= upper()
Interval(lo, hi) == [lo |-> lo, hi |-> hi]

\* The intervals <<lo, hi>> with lo <= hi.
Intervals == { i \in [lo : Scalars, hi : Scalars] : i.lo <= i.hi }

\* std::min and std::max on doubles
smin(x, y) == IF y < x THEN y ELSE x

smax(x, y) == IF x < y THEN y ELSE x

\* _min that returns the operand with the smaller upper bound.
_min_PicksOperand(a, b) == IF b.hi < a.hi THEN b ELSE a

\* _min(a, b): boost::numeric::min(a, b)
_min(a, b) == Interval(smin(a.lo, b.lo), smin(a.hi, b.hi))

\* _max that calls boost::numeric::min.
_max_CallsMin(a, b) == _min(a, b)

\* _max(a, b): boost::numeric::max(a, b)
_max(a, b) == Interval(smax(a.lo, b.lo), smax(a.hi, b.hi))

\* No result yet.
NoResult == [op |-> "none"]

\* -------------------------------------------------------------- operations

\* The Frame after construction.
FrameInit ==
    /\ current = NoTask
    /\ pending = NoTask
    /\ next = NoTask
    /\ future = 0
    /\ threads = {}
    /\ treeMat = 0
    /\ tex = [region |-> NoRegion, mat |-> 0]
    /\ op = "init"
    /\ ret = FALSE
    /\ reqCount = 0
    /\ lastReq = NoTask
    /\ dispatchLog = << >>
    /\ promoteLog = << >>
    /\ discarded = {}
    /\ matWrites = 0
    /\ assertsHold = TRUE
    /\ pollsSince = 0

\* The scheduler alone: no interval is being evaluated.
Init ==
    /\ FrameInit
    /\ ia = Interval(0, 0)
    /\ ib = Interval(0, 0)
    /\ ic = Interval(0, 0)
    /\ ires = NoResult

\* The history variables of a render() call that builds task t.
renderHistory(t) ==
    /\ lastReq' = t
    /\ discarded' = IF valid(next) THEN discarded \cup {next.req}
                    ELSE discarded
    /\ reqCount' = reqCount + 1
    /\ op' = "render"
    /\ pollsSince' = 0
    /\ UNCHANGED << tex, ret, promoteLog, intervalVars >>

\* render() without the test of future.valid(): every request starts a
\* worker at once.
render_NoFutureCheck(m, ni, nj, nk) ==
    \E t \in {Task(m, ni, nj, nk, StartLevel, reqCount + 1)} :
    \E f2 \in {startRender([Frame EXCEPT !.next = t])} :
        /\ Store(f2)
        /\ renderHistory(t)

\* render() that queues a request only when nothing is queued yet: the
\* first queued request wins.
render_KeepsQueued(m, ni, nj, nk) ==
    \E t \in {Task(m, ni, nj, nk, StartLevel, reqCount + 1)} :
    \E f1 \in {IF valid(next) THEN Frame ELSE [Frame EXCEPT !.next = t]} :
    \E f2 \in {IF ~futureValid(f1) THEN startRender(f1) ELSE f1} :
        /\ Store(f2)
        /\ renderHistory(t)

\* render() that installs the new transform in the tree at once.
render_SetsMatrix(m, ni, nj, nk) ==
    \E t \in {Task(m, ni, nj, nk, StartLevel, reqCount + 1)} :
    \E f1 \in {[Frame EXCEPT
                   !.next = t,
                   !.treeMat = inverse(m),
                   !.matWrites = IF threads # {} THEN matWrites + 1
                                 ELSE matWrites]} :
    \E f2 \in {IF ~futureValid(f1) THEN startRender(f1) ELSE f1} :
        /\ Store(f2)
        /\ renderHistory(t)

\* render() that returns at once when ni, nj or nk is zero.
render_RejectsDegenerate(m, ni, nj, nk) ==
    \E t \in {Task(m, ni, nj, nk, StartLevel, reqCount + 1)} :
    \E f1 \in {IF ni = 0 \/ nj = 0 \/ nk = 0 THEN Frame
                ELSE [Frame EXCEPT !.next = t]} :
    \E f2 \in {IF ~futureValid(f1) /\ f1.next = t THEN startRender(f1)
                ELSE f1} :
        /\ Store(f2)
        /\ renderHistory(t)

\* Frame::render(m, ni, nj, nk).  (\E x \in {e} names the value of e.)
render(m, ni, nj, nk) ==
    \E t \in {Task(m, ni, nj, nk, StartLevel, reqCount + 1)} :
    \E f1 \in {[Frame EXCEPT !.next = t]} :
    \E f2 \in {IF ~futureValid(f1) THEN startRender(f1) ELSE f1} :
        /\ Store(f2)
        /\ renderHistory(t)

\* What poll() leaves alone when it returns false.
pollFalse ==
    /\ ret' = FALSE
    /\ UNCHANGED << current, pending, next, future, threads, treeMat, tex,
                    dispatchLog, promoteLog, matWrites, assertsHold,
                    pollsSince >>

\* The worker the future refers to.
futureWorker == CHOOSE x \in threads : x.id = future

\* The ready branch without pending.reset().
consume_NoReset(w) ==
    [Frame EXCEPT
       !.future  = 0,
       !.threads = threads \ {w},
       !.current = pending]

\* poll(), the ready branch before startRender(): future.get() takes the
\* result of worker w, pending is moved to current.
consume(w) ==
    [Frame EXCEPT
       !.future  = 0,
       !.threads = threads \ {w},
       !.current = pending,
       !.pending = reset(pending)]

\* poll(), the ready branch: the result of worker w is packed into the
\* textures, f2 is the Frame after startRender(), true is returned.
promote(w, f2) ==
    /\ tex' = [region |-> w.region, mat |-> w.mat]
    /\ promoteLog' = Append(promoteLog, pending)
    /\ Store(f2)
    /\ pollsSince' = pollsSince + 1
    /\ ret' = TRUE

\* poll() with cancellation: the result of a worker is dropped, not
\* promoted, when a newer request is queued.
poll_DropsStale ==
    /\ op' = "poll"
    /\ IF futureValid(Frame) /\ futureWorker.done
       THEN \E w \in {futureWorker} :
            \E f1 \in {IF valid(next)
                        THEN [consume(w) EXCEPT !.current = current]
                        ELSE consume(w)} :
            \E f2 \in {startRender(f1)} :
                /\ tex' = IF valid(next) THEN tex
                          ELSE [region |-> w.region, mat |-> w.mat]
                /\ promoteLog' = IF valid(next) THEN promoteLog
                                 ELSE Append(promoteLog, pending)
                /\ Store(f2)
                /\ pollsSince' = pollsSince + 1
                /\ ret' = TRUE
       ELSE pollFalse
    /\ UNCHANGED << reqCount, lastReq, discarded, intervalVars >>

\* poll() that promotes the result but does not call startRender().
poll_NoRestart ==
    /\ op' = "poll"
    /\ IF futureValid(Frame) /\ futureWorker.done
       THEN \E w \in {futureWorker} :
            \E f1 \in {consume(w)} : promote(w, f1)
       ELSE pollFalse
    /\ UNCHANGED << reqCount, lastReq, discarded, intervalVars >>

\* poll() without the test of the future's status: future.get() waits for
\* the worker, and poll() returns true whenever a worker is in flight.
poll_NoStatusCheck ==
    /\ op' = "poll"
    /\ IF futureValid(Frame)
       THEN \E w \in {futureWorker} :
            \E f1 \in {consume(w)} :
            \E f2 \in {startRender(f1)} : promote(w, f2)
       ELSE pollFalse
    /\ UNCHANGED << reqCount, lastReq, discarded, intervalVars >>

\* poll() that swaps the task objects before it looks at the status.
poll_SwapsEarly ==
    /\ op' = "poll"
    /\ IF ~futureValid(Frame)
       THEN pollFalse
       ELSE IF futureWorker.done
       THEN \E w \in {futureWorker} :
            \E f1 \in {consume(w)} :
            \E f2 \in {startRender(f1)} : promote(w, f2)
       ELSE /\ ret' = FALSE
            /\ current' = pending
            /\ UNCHANGED << pending, next, future, threads, treeMat, tex,
                            dispatchLog, promoteLog, matWrites, assertsHold,
                            pollsSince >>
    /\ UNCHANGED << reqCount, lastReq, discarded, intervalVars >>

\* Frame::poll()
poll ==
    /\ op' = "poll"
    /\ IF ~futureValid(Frame)
       THEN pollFalse
       ELSE IF futureWorker.done
       THEN \E w \in {futureWorker} :
            \E f1 \in {consume(w)} :
            \E f2 \in {startRender(f1)} : promote(w, f2)
       ELSE pollFalse
    /\ UNCHANGED << reqCount, lastReq, discarded, intervalVars >>

\* The worker returns from the closure: its future becomes ready.
workerFinish ==
    /\ \E w \in threads :
         /\ ~w.done
         /\ threads' = (threads \ {w}) \cup {[w EXCEPT !.done = TRUE]}
    /\ op' = "finish"
    /\ UNCHANGED << current, pending, next, future, treeMat, tex, ret,
                    reqCount, lastReq, dispatchLog, promoteLog, discarded,
                    matWrites, assertsHold, pollsSince, intervalVars >>

\* Frame::draw(m): nothing is drawn without a valid current; else the
\* textures are drawn under mat = m * glm::inverse(current.mat).
draw(m) ==
    IF ~valid(current)
    THEN [drawn |-> FALSE, mat |-> 0, region |-> NoRegion]
    ELSE [drawn |-> TRUE, mat |-> mul(m, inverse(current.mat)),
          region |-> tex.region]

\* The caller: any request, at any time, up to MaxRequests of them.
Request ==
    /\ reqCount < MaxRequests
    /\ \E r \in Requests : render(r[1], r[2], r[3], r[4])

Next == Request \/ poll \/ workerFinish

Spec == Init /\ [][Next]_vars

\* The same program with a caller that polls again and again and workers
\* that finish: the contract of poll() ("the caller must call poll()
\* periodically") and of the worker, which runs to completion.  The caller
\* draws from fewer requests, which keeps the behaviour graph small.
LiveRequests == { <<1, 16, 32, 48>>, <<2, 8, 20, 16>> }

LiveRequest ==
    /\ reqCount < MaxLiveRequests
    /\ \E r \in LiveRequests : render(r[1], r[2], r[3], r[4])

LiveNext == LiveRequest \/ poll \/ workerFinish

LiveSpec == Init /\ [][LiveNext]_vars /\ WF_vars(poll) /\ WF_vars(workerFinish)

\* The evaluation of _min and _max on intervals drawn from Intervals; the
\* scheduler stays as constructed.
frameVars == << current, pending, next, future, threads, treeMat, tex,
               op, ret, reqCount, lastReq, dispatchLog, promoteLog,
               discarded, matWrites, assertsHold, pollsSince >>

IntervalInit ==
    /\ FrameInit
    /\ ia \in Intervals
    /\ ib \in Intervals
    /\ ic \in Intervals
    /\ ires = NoResult

\* _min applied to the operands, in both orders and both groupings.
evalMin ==
    /\ ires.op # "min"
    /\ ires' = [op   |-> "min",
                ab   |-> _min(ia, ib),
                ba   |-> _min(ib, ia),
                ab_c |-> _min(_min(ia, ib), ic),
                a_bc |-> _min(ia, _min(ib, ic)),
                aa   |-> _min(ia, ia)]
    /\ UNCHANGED << frameVars, ia, ib, ic >>

\* _max applied to the operands, in both orders and both groupings.
evalMax ==
    /\ ires.op # "max"
    /\ ires' = [op   |-> "max",
                ab   |-> _max(ia, ib),
                ba   |-> _max(ib, ia),
                ab_c |-> _max(_max(ia, ib), ic),
                a_bc |-> _max(ia, _max(ib, ic)),
                aa   |-> _max(ia, ia)]
    /\ UNCHANGED << frameVars, ia, ib, ic >>

IntervalNext == evalMin \/ evalMax

IntervalSpec == IntervalInit /\ [][IntervalNext]_vars

\* ------------------------------------------------------------ shared terms

\* The step is a call of render().
RenderStep == reqCount' = reqCount + 1

\* The step is a call of poll() that returned true.
PollTrueStep == op' = "poll" /\ ret' = TRUE

\* The step is a call of poll() that returned false.
PollFalseStep == op' = "poll" /\ ret' = FALSE

\* The step handed a task to a new worker.
DispatchStep == Len(dispatchLog') > Len(dispatchLog)

\* A worker is in flight: dispatched and its result not yet taken.
InFlight == threads # {}

\* The worker of the future has finished and poll() has not taken its result.
Ready == future # 0 /\ \E w \in threads : w.id = future /\ w.done

Last(s) == s[Len(s)]

\* No request overwritten in next before it started was ever dispatched.
DiscardedNeverDispatched ==
    \A i \in DOMAIN dispatchLog : dispatchLog[i].req \notin discarded

\* Every request's result becomes current, unless a later request is made.
LatestEventuallyCurrent ==
    \A r \in 1..MaxLiveRequests :
        (reqCount = r) ~> (current.req = r \/ reqCount > r)

\* The levels of an automatic refinement chain, coarsest first.
RefineLevels == << StartLevel, StartLevel \div 2, StartLevel \div 4, StartLevel \div 8 >>

\* Nothing is pending, queued or in flight.
Idle == ~valid(pending) /\ ~valid(next) /\ future = 0 /\ threads = {}

\* The request asks for no voxels along some axis.
Degenerate(t) == t.ni = 0 \/ t.nj = 0 \/ t.nk = 0

\* ------------------------------------------------------------------ claims

\* C1 (no overlap): at most one worker is dispatched and not yet consumed at
\* any time, and a step that dispatches a worker finds every earlier
\* dispatched task already promoted by a poll() that returned true, so that
\* the new worker is the only one in flight.
C1_NoOverlap ==
    /\ [](Cardinality(threads) <= 1)
    /\ [][DispatchStep =>
            /\ Len(dispatchLog') = Len(dispatchLog) + 1
            /\ Len(promoteLog') = Len(dispatchLog)
            /\ \A w \in threads' : w.id = Len(dispatchLog') /\ ~w.done]_vars

\* A second worker runs after the first was consumed, and a request is
\* queued behind it.
C1_Witness ==
    /\ Len(dispatchLog) >= 2
    /\ Cardinality(threads) = 1
    /\ valid(next)
\* C2 (scheduler coalescing): a request overwritten in next before it
\* started is never dispatched; every task dispatched at the starting level
\* is the latest request; when a request is queued behind a pending task,
\* the poll() that returns true promotes the pending task and dispatches the
\* queued request itself, at the starting level; and, with a caller that
\* keeps polling, the latest request's result becomes current unless a
\* later request is made.
C2_Coalescing ==
    /\ []DiscardedNeverDispatched
    /\ [][DispatchStep /\ Last(dispatchLog').level = StartLevel =>
            Last(dispatchLog') = lastReq']_vars
    /\ [][PollTrueStep /\ valid(next) =>
            /\ current' = pending
            /\ pending' = next
            /\ pending'.level = StartLevel
            /\ dispatchLog' = Append(dispatchLog, next)]_vars
    /\ LatestEventuallyCurrent

\* Request 1 was pending when request 2 arrived, request 3 overwrote
\* request 2 in next; 1 was promoted, then 3, and 2 never ran.
C2_Witness ==
    /\ discarded = {2}
    /\ Len(promoteLog) = 2
    /\ promoteLog[1].req = 1
    /\ promoteLog[2].req = 3
    /\ current.req = 3
    /\ \A i \in DOMAIN dispatchLog : dispatchLog[i].req # 2

\* C3 (latest wins, bounded queue): a render() call made while a task is
\* pending leaves in next exactly the request just made, at the starting
\* level, and leaves pending, the future, the workers and the dispatch
\* history unchanged; no request overwritten in next is ever dispatched.
C3_LatestWins ==
    /\ [][RenderStep /\ valid(pending) =>
            /\ next' = lastReq'
            /\ next'.req = reqCount'
            /\ next'.level = StartLevel
            /\ pending' = pending
            /\ future' = future
            /\ threads' = threads
            /\ dispatchLog' = dispatchLog]_vars
    /\ []DiscardedNeverDispatched

\* Two requests were made while the first was pending: the earlier of the
\* two was dropped and the later one is queued.
C3_Witness ==
    /\ valid(pending)
    /\ pending.req = 1
    /\ discarded = {2}
    /\ next = lastReq
    /\ next.req = 3
    /\ op = "render"

\* C4 (no cancellation): the first poll() that finds the worker finished
\* returns true and promotes the pending task to current; a render() call
\* leaves a pending task, its future and its worker as they are; a pending
\* task leaves pending only by being promoted.
C4_NoCancellation ==
    /\ [][Ready /\ op' = "poll" =>
            /\ ret' = TRUE
            /\ current' = pending
            /\ promoteLog' = Append(promoteLog, pending)]_vars
    /\ [][valid(pending) /\ RenderStep =>
            /\ pending' = pending
            /\ future' = future
            /\ threads' = threads]_vars
    /\ [][valid(pending) /\ pending' # pending =>
            PollTrueStep /\ current' = pending]_vars

\* A task was promoted although a newer request had arrived while it ran.
C4_Witness ==
    /\ op = "poll"
    /\ ret = TRUE
    /\ current.level = StartLevel
    /\ pending.level = StartLevel
    /\ pending.req > current.req
    /\ discarded # {}
\* C5 (auto-refine termination): while the first request is the only one,
\* the tasks promoted are that request at levels 8, 4, 2, 1 in this order;
\* once the fourth is promoted, current.level = 1 and the scheduler is idle,
\* and every later poll() returns false and changes nothing; and, with a
\* caller that keeps polling and workers that finish, this state is reached
\* unless another request is made.
C5_AutoRefine ==
    /\ [](reqCount = 1 =>
            /\ Len(promoteLog) <= 4
            /\ \A i \in DOMAIN promoteLog :
                  promoteLog[i] = [lastReq EXCEPT !.level = RefineLevels[i]])
    /\ [](reqCount = 1 /\ Len(promoteLog) = 4 => current.level = 1 /\ Idle)
    /\ [][reqCount = 1 /\ Len(promoteLog) = 4 /\ op' = "poll" =>
            /\ ret' = FALSE
            /\ UNCHANGED << current, pending, next, future, threads,
                            dispatchLog, promoteLog >>]_vars
    /\ (reqCount = 1) ~>
          (reqCount > 1 \/ (Len(promoteLog) = 4 /\ current.level = 1 /\ Idle))

\* One request, four promotions, and a further poll() that returned false.
C5_Witness ==
    /\ reqCount = 1
    /\ Len(promoteLog) = 4
    /\ current = [lastReq EXCEPT !.level = 1]
    /\ Idle
    /\ op = "poll"
    /\ ret = FALSE

\* C6 (pre-emption): when the last request is queued behind a pending task,
\* the poll() that promotes that task dispatches the request itself at the
\* starting level, not a refinement of the promoted task; after two polls
\* that returned true since the last request, that request at the starting
\* level has been promoted.
C6_Preemption ==
    /\ [][PollTrueStep /\ valid(next) =>
            /\ next = lastReq
            /\ pending' = lastReq
            /\ pending'.level = StartLevel
            /\ Last(dispatchLog') = lastReq]_vars
    /\ [](reqCount >= 1 /\ pollsSince >= 1 =>
            pending = lastReq \/ \E i \in DOMAIN promoteLog : promoteLog[i] = lastReq)
    /\ [](reqCount >= 1 /\ pollsSince >= 2 =>
            \E i \in DOMAIN promoteLog : promoteLog[i] = lastReq)

\* The last request arrived while a refinement (level 4) of the previous
\* request was pending; the second poll() after it promoted it.
C6_Witness ==
    /\ pollsSince = 2
    /\ Len(promoteLog) >= 3
    /\ promoteLog[Len(promoteLog) - 1].level = StartLevel \div 2
    /\ promoteLog[Len(promoteLog) - 1].req < lastReq.req
    /\ Last(promoteLog) = lastReq
    /\ current = lastReq

\* C7 as stated (DegenerateRequest): a render() call with a zero ni, nj or
\* nk is a no-op that leaves current, pending and next unchanged and
\* dispatches nothing.
C7_DegenerateRejected ==
    [][RenderStep /\ Degenerate(lastReq') =>
        UNCHANGED << current, pending, next, future, threads, dispatchLog >>]_vars

\* C7 as amended: a render() call with a zero ni, nj or nk is handled like
\* any other: current is unchanged; with a worker in flight the request is
\* queued in next at the starting level and pending is unchanged; with none
\* it is dispatched at once, with a Region of zero voxels on that axis.
C7_DegenerateAccepted ==
    [][RenderStep /\ Degenerate(lastReq') =>
        /\ current' = current
        /\ lastReq'.level = StartLevel
        /\ IF future # 0
           THEN /\ next' = lastReq'
                /\ pending' = pending
                /\ threads' = threads
                /\ dispatchLog' = dispatchLog
           ELSE /\ pending' = lastReq'
                /\ ~valid(next')
                /\ dispatchLog' = Append(dispatchLog, lastReq')
                /\ \E w \in threads' :
                      /\ w.id = future'
                      /\ w.region = Region(lastReq')
                      /\ w.region.ni = 0 \/ w.region.nj = 0 \/ w.region.nk = 0]_vars

\* The result of a request with a zero resolution is displayed.
C7_Witness ==
    /\ valid(current)
    /\ Degenerate(current)
    /\ tex.region = Region(current)
    /\ \E i \in DOMAIN dispatchLog : Degenerate(dispatchLog[i])

\* C8 (transform writes): Tree::setMatrix is never called while a worker is
\* in flight; the matrix each unconsumed worker started with is still the
\* one installed; the installed matrix changes only in a step that
\* dispatches a worker, to the inverse of the dispatched task's transform.
C8_TransformWrites ==
    /\ [](matWrites = 0)
    /\ [](\A w \in threads : w.mat = treeMat)
    /\ [][treeMat' # treeMat =>
            DispatchStep /\ treeMat' = inverse(Last(dispatchLog').mat)]_vars

\* A request with another transform was made while a worker was running:
\* the tree still holds the running task's matrix.
C8_Witness ==
    /\ op = "render"
    /\ valid(pending)
    /\ next = lastReq
    /\ next.mat # pending.mat
    /\ treeMat = inverse(pending.mat)
    /\ \E w \in threads : ~w.done

\* C9 (poll returns false): a poll() made while the worker has not finished,
\* or while no worker is in flight, returns false and leaves current,
\* pending, next, the future, the worker, the tree's matrix and the textures
\* unchanged.
C9_PollFalse ==
    [][op' = "poll" /\ ~Ready =>
        /\ ret' = FALSE
        /\ UNCHANGED << current, pending, next, future, threads, treeMat,
                        tex, dispatchLog, promoteLog >>]_vars

\* A poll() returned false while the worker was still running.
C9_Witness ==
    /\ op = "poll"
    /\ ret = FALSE
    /\ valid(pending)
    /\ future # 0
    /\ \E w \in threads : w.id = future /\ ~w.done

\* C10 (current is stable): current changes only in a poll() that returns
\* true; render() and a poll() that returns false leave it unchanged.
C10_CurrentStable ==
    /\ [][current' # current => PollTrueStep]_vars
    /\ [][RenderStep \/ PollFalseStep => current' = current]_vars

\* A render() call that dispatched at once left a valid current untouched.
C10_Witness ==
    /\ op = "render"
    /\ valid(current)
    /\ pending = lastReq
    /\ current.req < pending.req
\* C11 (result/transform pairing): a poll() that returns true puts in
\* current the very task its worker was dispatched for, and in the textures
\* the buffers of that worker, computed over the Region of that task; from
\* dispatch to consumption the matrix installed in the tree is the inverse
\* of that task's transform; and draw() composes its argument with the
\* matrix the displayed buffers were computed under.
C11_Pairing ==
    /\ [][PollTrueStep =>
            /\ current' = dispatchLog[futureWorker.id]
            /\ tex' = [region |-> futureWorker.region, mat |-> futureWorker.mat]
            /\ tex'.region = Region(current')
            /\ tex'.mat = inverse(current'.mat)]_vars
    /\ [](\A w \in threads :
            /\ w.mat = inverse(dispatchLog[w.id].mat)
            /\ w.region = Region(dispatchLog[w.id])
            /\ treeMat = w.mat)
    /\ [](valid(current) =>
            \A m \in {0, 1, 2} :
                /\ draw(m).drawn
                /\ draw(m).mat = mul(m, tex.mat)
                /\ draw(m).region = Region(current))

\* A result was handed over while a request with another transform was
\* queued: current and the textures belong to the older transform.
C11_Witness ==
    /\ op = "poll"
    /\ ret = TRUE
    /\ valid(current)
    /\ valid(pending)
    /\ pending.mat # current.mat
    /\ tex.mat = inverse(current.mat)
    /\ treeMat = inverse(pending.mat)

\* C12 (FIFO completions): the tasks promoted to current are the tasks
\* dispatched, in the same order, none skipped, duplicated or reordered;
\* the only dispatched task not yet promoted is the pending one.
C12_Fifo ==
    dispatchLog = promoteLog \o (IF valid(pending) THEN << pending >> ELSE << >>)

\* Three tasks were dispatched and promoted, one request was dropped while
\* it was queued, and a fourth task is running.
C12_Witness ==
    /\ Len(promoteLog) = 3
    /\ Len(dispatchLog) = 4
    /\ discarded # {}
    /\ promoteLog[1].req # promoteLog[3].req
\* The scalars an interval contains.
Members(i) == { x \in Scalars : i.lo <= x /\ x <= i.hi }

\* C13 (min/max algebra): on intervals with lo <= hi, _min is commutative,
\* associative and idempotent, and so is _max.
C13_MinMaxAlgebra ==
    ires.op \in {"min", "max"} =>
        /\ ires.ab = ires.ba
        /\ ires.ab_c = ires.a_bc
        /\ ires.aa = ia

\* _min was applied to an interval nested in another: the result is
\* neither operand, and a third interval took part.
C13_Witness ==
    /\ ires.op = "min"
    /\ ia.lo < ib.lo
    /\ ib.hi < ia.hi
    /\ ires.ab \notin {ia, ib}
    /\ ires.ab_c # ires.ab

\* C14 (soundness of interval min/max): _min(a, b) is
\* [min(lo_a, lo_b), min(hi_a, hi_b)] and contains min(x, y) for all x in a
\* and y in b; _max(a, b) is [max(lo_a, lo_b), max(hi_a, hi_b)] and contains
\* max(x, y); infinite endpoints included.
C14_MinMaxSound ==
    /\ ires.op = "min" =>
          /\ ires.ab = Interval(smin(ia.lo, ib.lo), smin(ia.hi, ib.hi))
          /\ \A x \in Members(ia), y \in Members(ib) :
                smin(x, y) \in Members(ires.ab)
    /\ ires.op = "max" =>
          /\ ires.ab = Interval(smax(ia.lo, ib.lo), smax(ia.hi, ib.hi))
          /\ \A x \in Members(ia), y \in Members(ib) :
                smax(x, y) \in Members(ires.ab)

\* _max was applied to an interval unbounded below and one unbounded above.
C14_Witness ==
    /\ ires.op = "max"
    /\ ia.lo = 0 - Inf
    /\ ia.hi = 0
    /\ ib.lo = 0 - MaxScalar
    /\ ib.hi = Inf
    /\ ires.ab = Interval(0 - MaxScalar, Inf)
\* C15 (level discipline): the task a render() call creates has the
\* starting level; a step that dispatches a task dispatches the request
\* just made (render), the queued request (poll with next valid) or, only
\* when next is empty and the promoted task's level exceeds 1, a
\* continuation with the transform and resolution of current and exactly
\* half of its level; a poll() that promotes a level-1 task with nothing
\* queued dispatches nothing; every dispatched level is 8, 4, 2 or 1.
C15_LevelDiscipline ==
    /\ [][RenderStep =>
            /\ lastReq'.level = StartLevel
            /\ lastReq' \in {next', pending'}]_vars
    /\ [][DispatchStep =>
            LET t == Last(dispatchLog')
            IN  IF RenderStep
                THEN t = lastReq'
                ELSE IF valid(next)
                THEN t = next /\ t.level = StartLevel
                ELSE /\ PollTrueStep
                     /\ current'.level > 1
                     /\ 2 * t.level = current'.level
                     /\ t = [current' EXCEPT !.level = t.level]]_vars
    /\ [][PollTrueStep /\ ~valid(next) /\ pending.level = 1 =>
            ~DispatchStep /\ Idle']_vars
    /\ [](\A i \in DOMAIN dispatchLog :
            \E k \in DOMAIN RefineLevels :
                dispatchLog[i].level = RefineLevels[k] /\ dispatchLog[i].level >= 1)

\* A continuation at level 2 is running after levels 8 and 4 of the same
\* request were promoted.
C15_Witness ==
    /\ op = "poll"
    /\ ret = TRUE
    /\ current.level = 4
    /\ pending = [current EXCEPT !.level = 2]
    /\ ~valid(next)
    /\ Len(dispatchLog) >= 3
\* The integer count c is the quotient n / div with its fraction dropped.
IsQuotient(c, n, div) == c * div <= n /\ n < (c + 1) * div

\* The Region r has the fixed extents and the level-scaled counts of task t.
RegionOf(r, t) ==
    /\ r.x = <<-1, 1>>
    /\ r.y = <<-1, 1>>
    /\ r.z = <<-1, 1>>
    /\ IsQuotient(r.ni, t.ni, 2 * t.level)
    /\ IsQuotient(r.nj, t.nj, 2 * t.level)
    /\ IsQuotient(r.nk, t.nk, 2 * t.level)

\* C16 (regions): the Region of every worker has the extents [-1,1] on the
\* three axes and, per axis, the count requested / (2 * level) of its task;
\* so has the Region of the displayed result; when the pending task is a
\* continuation of current, its Region has the same extents, its counts are
\* not smaller, and transform and requested resolution are the same.
C16_Regions ==
    /\ \A w \in threads : RegionOf(w.region, dispatchLog[w.id])
    /\ valid(current) => RegionOf(tex.region, current)
    /\ \A w \in threads :
          (w.id = future /\ valid(current) /\ pending.req = current.req) =>
              /\ 2 * pending.level = current.level
              /\ pending = [current EXCEPT !.level = pending.level]
              /\ w.mat = tex.mat
              /\ w.region.x = tex.region.x
              /\ w.region.y = tex.region.y
              /\ w.region.z = tex.region.z
              /\ w.region.ni >= tex.region.ni
              /\ w.region.nj >= tex.region.nj
              /\ w.region.nk >= tex.region.nk

\* A level-4 continuation runs on a Region with more voxels on each axis
\* than the level-8 Region on display, and unequal counts per axis.
C16_Witness ==
    /\ current.level = StartLevel
    /\ pending = [current EXCEPT !.level = StartLevel \div 2]
    /\ \E w \in threads :
          /\ w.id = future
          /\ w.region.ni > tex.region.ni
          /\ w.region.nj > tex.region.nj
          /\ w.region.nk > tex.region.nk
          /\ w.region.nj # w.region.nk
          /\ tex.region.ni >= 1
\* Every resolution of the task is positive.
Positive(t) == t.ni > 0 /\ t.nj > 0 /\ t.nk > 0

\* The Region has at least one voxel along each axis.
NonEmpty(r) == r.ni >= 1 /\ r.nj >= 1 /\ r.nk >= 1

\* C17 as stated: for a request with positive ni, nj, nk, every Region
\* handed to a worker, and every Region whose result is promoted, has at
\* least one voxel along each axis.
C17_NoEmptyRegion ==
    /\ \A w \in threads : Positive(dispatchLog[w.id]) => NonEmpty(w.region)
    /\ (valid(current) /\ Positive(current)) => NonEmpty(tex.region)

\* C17 as amended: the Region of a task has at least one voxel along an
\* axis exactly when the requested resolution on that axis is at least
\* 2 * level; so a request with ni, nj, nk >= 16 never yields an empty
\* Region, while a smaller positive resolution yields zero voxels at the
\* coarse levels, and that Region is dispatched and its result promoted.
C17_VoxelsIffLargeEnough ==
    /\ \A w \in threads :
          LET t == dispatchLog[w.id]
          IN  /\ w.region.ni >= 1 <=> t.ni >= 2 * t.level
              /\ w.region.nj >= 1 <=> t.nj >= 2 * t.level
              /\ w.region.nk >= 1 <=> t.nk >= 2 * t.level
    /\ valid(current) =>
          /\ tex.region.ni >= 1 <=> current.ni >= 2 * current.level
          /\ tex.region.nj >= 1 <=> current.nj >= 2 * current.level
          /\ tex.region.nk >= 1 <=> current.nk >= 2 * current.level
    /\ \A i \in DOMAIN dispatchLog :
          (dispatchLog[i].ni >= 2 * StartLevel /\ dispatchLog[i].nj >= 2 * StartLevel
              /\ dispatchLog[i].nk >= 2 * StartLevel)
          => NonEmpty(Region(dispatchLog[i]))

\* The result of a level-8 Region with no voxel along the first axis, from
\* a request with positive resolutions, is displayed.
C17_Witness ==
    /\ valid(current)
    /\ Positive(current)
    /\ current.level = StartLevel
    /\ tex.region = Region(current)
    /\ tex.region.ni = 0
    /\ tex.region.nj >= 1

\* C18 (assertions and occupancy): no assertion of startRender() fails,
\* the recursive call included; between operations pending is valid exactly
\* when a worker is in flight (the future is valid and its worker not yet
\* consumed), next is valid only while a task is pending, and a render()
\* call on an idle scheduler dispatches the request and leaves next empty.
C18_Occupancy ==
    /\ []assertsHold
    /\ [](valid(pending) <=> future # 0)
    /\ [](future # 0 <=> threads # {})
    /\ [](\A w \in threads : w.id = future)
    /\ [](valid(next) => valid(pending))
    /\ [][RenderStep /\ future = 0 =>
            /\ pending' = lastReq'
            /\ ~valid(next')
            /\ DispatchStep]_vars

\* The recursive call of startRender() dispatched a continuation, with
\* both assertions passed twice.
C18_Witness ==
    /\ assertsHold
    /\ op = "poll"
    /\ ret = TRUE
    /\ valid(current)
    /\ 2 * pending.level = current.level
    /\ pending.req = current.req
    /\ future # 0

====
